---- MODULE Spec2Model ----
(***************************************************************************)
(* ts-smart-mocker: the ApiMocker class (smartFetch, the in-memory map of  *)
(* stored responses, the option flags) and the storage module behind it    *)
(* (loadResponses / saveResponses on responses.json).                      *)
(*                                                                         *)
(* JavaScript values are tagged records ([t |-> "undefined"], [t |->       *)
(* "string", s |-> <<char codes>>], ...), so that any two of them can be   *)
(* compared.  A property that an object does not have is a field that the  *)
(* record does not have; reading it yields undefined (Prop).               *)
(***************************************************************************)
EXTENDS Integers, Sequences, FiniteSets, TLC

VARIABLES
    disk,             \* responses.json, the durable store shared by all instances
    self,             \* which ApiMocker instance is the live one
    options,          \* this.options
    isMocking,        \* this.state.isMocking
    mocks,            \* this.state.mocks
    storedResponses,  \* this.state.storedResponses (the Map)
    loader,           \* the constructor's un-awaited loadStoredResponses() call
    calls,            \* the pending smartFetch / clearStoredResponses calls
    clock,            \* what new Date() reads; it advances with every record made
    ev                \* what the last step did and, for a settled call, its result

vars == <<disk, self, options, isMocking, mocks, storedResponses, loader, calls, clock, ev>>

-----------------------------------------------------------------------------
(* Bounds *)

\* smartFetch and clearStoredResponses calls made in one behaviour
MaxCalls == 2

Calls == 1..MaxCalls

-----------------------------------------------------------------------------
(* JavaScript values *)

Undefined == [t |-> "undefined"]
Null == [t |-> "null"]
Str(chars) == [t |-> "string", s |-> chars]
EmptyObject == [t |-> "object"]

\* o.f, which is undefined for a property o does not have
Prop(o, f) == IF f \in DOMAIN o THEN o[f] ELSE Undefined

\* x || dflt : x unless it is falsy (undefined, null, the empty string)
OrElse(x, dflt) == IF x = Undefined \/ x = Null \/ x = Str(<<>>) THEN dflt ELSE x

\* opts.f || dflt : the explicit option unless it is false or 0
CoalesceFalsy(opts, f, dflt) ==
    IF f \in DOMAIN opts /\ (IF f \in {"defaultDelay", "delay"} THEN opts[f] # 0 ELSE opts[f])
    THEN opts[f] ELSE dflt

\* opts.f ?? dflt : the explicit option when it is given
Coalesce(opts, f, dflt) == IF f \in DOMAIN opts THEN opts[f] ELSE dflt

\* JSON.stringify of the values a request body takes here: a string is quoted
\* (none of the strings used needs an escape), an empty object is "{}"
JSONstringify(v) ==
    IF v.t = "string" THEN <<34>> \o v.s \o <<34>>
    ELSE IF v.t = "object" THEN <<123, 125>>
    ELSE <<110, 117, 108, 108>>

\* JSON.parse(JSON.stringify(o)) of an object: a property whose value is
\* undefined is not written, every other value used here reads back unchanged
JSONobject(o) == [f \in {g \in DOMAIN o : o[g] # Undefined} |-> o[f]]

\* a stored record as it reads back from responses.json
JSONrecord(rec) == [JSONobject(rec) EXCEPT !.request = JSONobject(rec.request)]

\* a Map / a plain object keyed by storage key
EmptyMap == [k \in {} |-> Undefined]
MapSet(m, k, v) == [x \in DOMAIN m \cup {k} |-> IF x = k THEN v ELSE m[x]]
MapGet(m, k) == IF k \in DOMAIN m THEN m[k] ELSE Undefined

-----------------------------------------------------------------------------
(* hashCode: a 32-bit value is kept as <<high 16 bits, low 16 bits>> so that *)
(* no intermediate exceeds a 32-bit integer; the arithmetic is that of       *)
(* the source modulo 2^32, which is what `hash & hash` keeps.                *)

\* hash << 5
ShiftLeft5(h) ==
    LET lo32 == h[2] * 32
    IN  <<(h[1] * 32 + (lo32 \div 65536)) % 65536, lo32 % 65536>>

\* (a - b) modulo 2^32
Sub32(a, b) ==
    LET lo == a[2] - b[2]
        borrow == IF lo < 0 THEN 1 ELSE 0
    IN  <<(a[1] - b[1] - borrow + 131072) % 65536, lo + borrow * 65536>>

\* (a + char) modulo 2^32, char a UTF-16 code unit
Add32(a, char) ==
    LET lo == a[2] + char
    IN  <<(a[1] + (lo \div 65536)) % 65536, lo % 65536>>

\* the 32 bits with the sign bit masked off
ToInt31(h) == (h[1] % 32768) * 65536 + h[2]

\* the signed reading of the 32 bits (what a bitwise operator returns)
ToInt32(h) == IF h[1] >= 32768 THEN (h[1] - 65536) * 65536 + h[2] ELSE h[1] * 65536 + h[2]

RECURSIVE hashLoop(_, _, _)
\* one round of the loop per code unit; the hash of a round is bound as a
\* value (h) before the next round reads it
hashLoop(str, i, hash) ==
    IF i > Len(str) THEN hash
    ELSE LET char == str[i]
         IN  CHOOSE result \in {hashLoop(str, i + 1, h) :
                                   h \in {Add32(Sub32(ShiftLeft5(hash), hash), char)}} : TRUE

hashCode(str) == IF Len(str) = 0 THEN 0 ELSE ToInt32(hashLoop(str, 1, <<0, 0>>))

\* `${n}` of an integer: its decimal digits, with a minus sign when negative
RECURSIVE Digits(_)
Digits(n) == IF n < 10 THEN <<48 + n>> ELSE Digits(n \div 10) \o <<48 + (n % 10)>>

\* -2^31 has no positive counterpart in 32 bits and is spelled out
NumberToString(n) ==
    IF n = (-32768) * 65536 THEN <<45, 50, 49, 52, 55, 52, 56, 51, 54, 52, 56>>
    ELSE IF n < 0 THEN <<45>> \o Digits(0 - n)
    ELSE Digits(n)

\* `${url}_${method}_${hashCode(JSON.stringify(requestBody || {}))}`
StorageKey(url, method, requestBody) ==
    url.s \o <<95>> \o method.s \o <<95>>
        \o NumberToString(hashCode(JSONstringify(OrElse(requestBody, EmptyObject))))

-----------------------------------------------------------------------------
(* The storage module: responses.json *)

Absent == [t |-> "absent"]     \* no file
Corrupt == [t |-> "corrupt"]   \* a file JSON.parse rejects (a write that broke off)
File(content) == [t |-> "file", content |-> content]

\* a load that leaves the map as it is when reading or parsing throws
loadResponsesOrKeep(d) == IF d.t = "file" THEN d.content ELSE storedResponses

\* loadResponses: the parsed file, {} when reading or parsing throws
loadResponses(d) == IF d.t = "file" THEN d.content ELSE EmptyMap

\* saveResponses(responses): what writeFile leaves in the file
saveResponses(responses) == File([k \in DOMAIN responses |-> JSONrecord(responses[k])])

\* what a failed saveResponses can leave: mkdir or the open failed (the file is as
\* it was), or the write broke off after truncating the file
FailedSaveLeaves(d) == {d, Corrupt}

-----------------------------------------------------------------------------
(* Construction *)

FlagNames == {"isMocking", "storeRealResponses", "storeErrorResponses"}

\* parseInt(process.env.MOCKING_DELAY || '1000') with the variable unset
EnvDefaultDelay == 1000

\* the options object given to the constructor, here with each flag given
ExplicitOptions == [FlagNames -> BOOLEAN]

\* the four settings read from process.env when none of the variables is set
UnsetEnvironment ==
    [isMocking |-> FALSE, storeRealResponses |-> FALSE,
     storeErrorResponses |-> FALSE, defaultDelay |-> EnvDefaultDelay]

Environments == {UnsetEnvironment}

\* this.options as the constructor sets it.  options.isMocking is read once, to
\* set state.isMocking, and never again: it is not kept here.
ConstructorOptions(opts, env) ==
    [storeRealResponses |-> Coalesce(opts, "storeRealResponses", env.storeRealResponses),
     storeErrorResponses |-> Coalesce(opts, "storeErrorResponses", env.storeErrorResponses),
     defaultDelay |-> Coalesce(opts, "defaultDelay", env.defaultDelay)]

\* Boolean(this.options.isMocking)
ConstructorMocking(opts, env) == Coalesce(opts, "isMocking", env.isMocking)

\* the constructor starts loadStoredResponses() only when storage is enabled,
\* and does not wait for it
ConstructorLoader(o) == IF o.storeRealResponses THEN [pc |-> "reading"] ELSE [pc |-> "none"]

NewCall == [pc |-> "new"]
DoneCall == [pc |-> "done"]

\* new ApiMocker(opts) in a process whose environment is env, nothing stored yet
Init ==
    \E opts \in ExplicitOptions, env \in Environments :
        /\ disk = Absent
        /\ self = "first"
        /\ options = ConstructorOptions(opts, env)
        /\ isMocking = ConstructorMocking(opts, env)
        /\ mocks = <<>>
        /\ storedResponses = EmptyMap
        /\ loader = ConstructorLoader(ConstructorOptions(opts, env))
        /\ calls = [c \in Calls |-> NewCall]
        /\ clock = 1
        /\ ev = [op |-> "constructor", opts |-> opts, env |-> env]

\* the caller still has a call to make or to wait for; once its last call has
\* settled nothing more is looked at
Running == \E c \in Calls : calls[c].pc # "done"

InFlight(c) == calls[c].pc \notin {"new", "done"}

\* nothing of the live instance is pending
Quiescent == /\ \A c \in Calls : ~InFlight(c)
             /\ loader.pc \in {"none", "done"}

\* A second instance is constructed on the same responses.json once the first
\* one has come to rest; from then on the second is the instance in use.
Constructor(opts, env) ==
    /\ self = "first"
    /\ Running
    /\ Quiescent
    /\ self' = "second"
    /\ options' = ConstructorOptions(opts, env)
    /\ isMocking' = ConstructorMocking(opts, env)
    /\ mocks' = <<>>
    /\ storedResponses' = EmptyMap
    /\ loader' = ConstructorLoader(ConstructorOptions(opts, env))
    /\ ev' = [op |-> "constructor", opts |-> opts, env |-> env]
    /\ UNCHANGED <<disk, calls, clock>>

-----------------------------------------------------------------------------
(* loadStoredResponses, started by the constructor *)

\* fs.readFile completes and the awaiting loadStoredResponses resumes: the map
\* is replaced by what the file holds now.  loadResponses and the assignment are
\* one step: the load touches nothing of the mocker between them.
LoadCompletes ==
    /\ loader.pc = "reading"
    /\ storedResponses' = loadResponses(disk)
    /\ loader' = [pc |-> "done"]
    /\ ev' = [op |-> "loadStoredResponses"]
    /\ UNCHANGED <<disk, self, options, isMocking, mocks, calls, clock>>

-----------------------------------------------------------------------------
(* The toggles *)

enableMocking ==
    /\ Running
    /\ isMocking' = TRUE
    /\ ev' = [op |-> "enableMocking"]
    /\ UNCHANGED <<disk, self, options, mocks, storedResponses, loader, calls, clock>>

disableMocking ==
    /\ Running
    /\ isMocking' = FALSE
    /\ ev' = [op |-> "disableMocking"]
    /\ UNCHANGED <<disk, self, options, mocks, storedResponses, loader, calls, clock>>

\* the config getter
config ==
    [isMocking |-> isMocking,
     storeRealResponses |-> options.storeRealResponses,
     storeErrorResponses |-> options.storeErrorResponses,
     defaultDelay |-> options.defaultDelay]

\* Boolean(this.options.storeErrorResponses)
isErrorResponseStorageEnabled == options.storeErrorResponses

\* Boolean(this.options.storeRealResponses)
isRealResponseStorageEnabled == options.storeRealResponses

\* turning real storage on and loading the file as the constructor would
enableRealResponseStorageAndLoad ==
    /\ Running
    /\ options' = [options EXCEPT !.storeRealResponses = TRUE]
    /\ loader' = [pc |-> "reading"]
    /\ ev' = [op |-> "enableRealResponseStorage"]
    /\ UNCHANGED <<disk, self, isMocking, mocks, storedResponses, calls, clock>>

enableRealResponseStorage ==
    /\ Running
    /\ options' = [options EXCEPT !.storeRealResponses = TRUE]
    /\ ev' = [op |-> "enableRealResponseStorage"]
    /\ UNCHANGED <<disk, self, isMocking, mocks, storedResponses, loader, calls, clock>>

\* turning error storage off together with real storage
disableAllResponseStorage ==
    /\ Running
    /\ options' = [options EXCEPT !.storeRealResponses = FALSE, !.storeErrorResponses = FALSE]
    /\ ev' = [op |-> "disableRealResponseStorage"]
    /\ UNCHANGED <<disk, self, isMocking, mocks, storedResponses, loader, calls, clock>>

disableRealResponseStorage ==
    /\ Running
    /\ options' = [options EXCEPT !.storeRealResponses = FALSE]
    /\ ev' = [op |-> "disableRealResponseStorage"]
    /\ UNCHANGED <<disk, self, isMocking, mocks, storedResponses, loader, calls, clock>>

enableErrorResponseStorage ==
    /\ Running
    /\ options' = [options EXCEPT !.storeErrorResponses = TRUE]
    /\ ev' = [op |-> "enableErrorResponseStorage"]
    /\ UNCHANGED <<disk, self, isMocking, mocks, storedResponses, loader, calls, clock>>

disableErrorResponseStorage ==
    /\ Running
    /\ options' = [options EXCEPT !.storeErrorResponses = FALSE]
    /\ ev' = [op |-> "disableErrorResponseStorage"]
    /\ UNCHANGED <<disk, self, isMocking, mocks, storedResponses, loader, calls, clock>>

-----------------------------------------------------------------------------
(* Requests and what the live call can answer *)

GET == Str(<<71, 69, 84>>)
POST == Str(<<80, 79, 83, 84>>)

\* the url "/y"
TheUrl == Str(<<47, 121>>)

\* the bodies "Aa" and "BB": different strings whose JSON texts have one hashCode
BodyAa == Str(<<65, 97>>)
BodyBB == Str(<<66, 66>>)

JsonContentType == [h \in {"Content-Type"} |-> "application/json"]

\* smartFetch(url, init): init.method, init.body and init.headers may be left out
Requests ==
    {[url |-> TheUrl, method |-> Undefined, body |-> Undefined, headers |-> Undefined],
     [url |-> TheUrl, method |-> POST, body |-> BodyAa, headers |-> JsonContentType],
     [url |-> TheUrl, method |-> POST, body |-> BodyBB, headers |-> JsonContentType]}

\* the payload {a: 1} a live call returns, as a parsed JSON value
Payloads == {[t |-> "json", v |-> "a1"]}

\* a body response.json() cannot parse
Unparseable == [t |-> "invalid"]

ResponseHeaders == [h \in {"Content-Type"} |-> "application/json"]

\* an Error object; e.stack is a string naming where it was made
Error(name, message) ==
    [t |-> "Error", name |-> name, message |-> message, stack |-> [t |-> "string", at |-> name]]

\* fetch rejects: the global fetch with a TypeError, node-fetch with a FetchError
TransportErrors ==
    {Error("TypeError", [text |-> "fetch failed"]),
     Error("FetchError", [text |-> "request failed"])}

\* what `await fetchWithAgent(input, init)` can come to
LiveOutcomes ==
    {[kind |-> "reject", error |-> e] : e \in TransportErrors}
    \cup {[kind |-> "response", ok |-> FALSE, status |-> 404, statusText |-> [text |-> "Not Found"],
           headers |-> ResponseHeaders, body |-> b] : b \in {Unparseable}}
    \cup {[kind |-> "response", ok |-> TRUE, status |-> 200, statusText |-> [text |-> "OK"],
           headers |-> ResponseHeaders, body |-> b] : b \in Payloads \cup {Unparseable}}

\* the Error a failed mkdir / writeFile rejects with
FsError == Error("Error", [text |-> "EACCES: permission denied"])

-----------------------------------------------------------------------------
(* The pieces of smartFetch *)

\* Headers keeps names in lower case; forEach fills the record from them
LowerCase(name) == IF name = "Content-Type" THEN "content-type" ELSE name
headersToRecord(headers) ==
    [n \in {LowerCase(h) : h \in DOMAIN headers} |->
        headers[CHOOSE h \in DOMAIN headers : LowerCase(h) = n]]

EmptyHeaders == [h \in {} |-> ""]

\* init?.method || 'GET'
MethodOf(req) == OrElse(req.method, GET)

\* a lookup that leaves the body out of the key
getStoredResponseWithoutBody(url, method, requestBody) ==
    MapGet(storedResponses, StorageKey(url, method, Undefined))

getStoredResponse(url, method, requestBody) ==
    MapGet(storedResponses, StorageKey(url, method, requestBody))

\* serving stored responses whether or not mocking is on
ServeStoredWithoutMocking(req) ==
    getStoredResponse(req.url, MethodOf(req), req.body) # Undefined

\* `if (this.state.isMocking)` and `if (storedResponse)`: the stored response is
\* served (a stored record is an object, hence truthy)
ServeStored(req) ==
    isMocking /\ getStoredResponse(req.url, MethodOf(req), req.body) # Undefined

\* the request part of a stored record
\* request details that always name the default method
RequestInfoAsGet(req) ==
    [url |-> req.url, method |-> GET, body |-> req.body,
     headers |-> IF req.headers # Undefined THEN headersToRecord(req.headers) ELSE Undefined]

RequestInfo(req) ==
    [url |-> req.url, method |-> MethodOf(req), body |-> req.body,
     headers |-> IF req.headers # Undefined THEN headersToRecord(req.headers) ELSE Undefined]

Timestamp(now) == [t |-> "string", time |-> now]

\* the record smartFetch stores for a live success
SuccessRecord(req, data, response, now) ==
    [response |-> [data |-> data, error |-> Null, success |-> TRUE],
     timestamp |-> Timestamp(now),
     headers |-> headersToRecord(response.headers),
     request |-> RequestInfo(req)]

\* { message, name, stack } of a caught Error
ErrorDetails(error) ==
    [message |-> error.message, name |-> error.name, stack |-> error.stack]

\* the record the catch block stores
ErrorRecord(req, error, now) ==
    [response |-> [error |-> ErrorDetails(error), data |-> Null, success |-> FALSE],
     timestamp |-> Timestamp(now),
     headers |-> EmptyHeaders,
     request |-> RequestInfo(req)]

\* the response smartFetch returns for a stored record
StoredView(storedResponse) ==
    [json |-> storedResponse.response,
     headers |-> storedResponse.headers,
     ok |-> TRUE,
     status |-> 200,
     statusText |-> [text |-> "OK"],
     text |-> [t |-> "JSON.stringify", of |-> storedResponse.response]]

\* the response smartFetch returns after a live success
LiveView(data, response) ==
    [json |-> data,
     headers |-> headersToRecord(response.headers),
     ok |-> response.ok,
     status |-> response.status,
     statusText |-> response.statusText,
     text |-> [t |-> "response.text()"]]

\* the value the catch block throws
FailureView(error) ==
    [json |-> [error |-> ErrorDetails(error), data |-> Null, success |-> FALSE],
     headers |-> EmptyHeaders,
     ok |-> FALSE,
     status |-> IF error.name = "TypeError" THEN 0 ELSE 500,
     statusText |-> error.message,
     text |-> error.message]

\* the Error thrown for a response that is not ok; errorData is the parsed body,
\* {} when it does not parse
HttpError(response) ==
    Error("Error",
          [text |-> "HTTP error! status", status |-> response.status,
           statusText |-> response.statusText,
           data |-> IF response.body = Unparseable THEN EmptyObject ELSE response.body])

\* response.json() of a body that does not parse
JsonSyntaxError == Error("SyntaxError", [text |-> "Unexpected token in JSON"])

\* what the try block of a live call comes to before anything is stored:
\* the parsed data, or the Error thrown
LiveThrows(outcome) ==
    \/ outcome.kind = "reject"
    \/ ~outcome.ok
    \/ outcome.body = Unparseable

LiveError(outcome) ==
    IF outcome.kind = "reject" THEN outcome.error
    ELSE IF ~outcome.ok THEN HttpError(outcome)
    ELSE JsonSyntaxError

\* storing whatever the flag says
StoreRealAlways == TRUE

\* `this.options.storeRealResponses`, as smartFetch and saveToStorage read it
StoreReal == options.storeRealResponses

\* storing errors whenever real responses are stored
StoreErrorsWithReal == StoreReal

\* the catch block stores when both flags are set
StoreErrors == StoreReal /\ options.storeErrorResponses

\* saveToStorage writes only while storeRealResponses is set
saveToStorageWrites == StoreReal

-----------------------------------------------------------------------------
(* smartFetch.  A call is one step from each await to the next.  The awaits of *)
(* fetch and of response.json() are one step: the call reads and writes        *)
(* nothing of the mocker between them.                                         *)

\* a key made of the url alone
KeyOfUrl(req) == StorageKey(req.url, GET, Undefined)

\* a key that also depends on what has been stored before
KeyOfHistory(req) == StorageKey(req.url, MethodOf(req), req.body) \o NumberToString(clock)

\* the key smartFetch stores under
KeyOf(req) == StorageKey(req.url, MethodOf(req), req.body)

\* call c returns value
Resolve(c, req, from, value, liveCalls) ==
    /\ calls' = [calls EXCEPT ![c] = DoneCall]
    /\ ev' = [op |-> "smartFetch", call |-> c, phase |-> "resolved", req |-> req,
              from |-> from, value |-> value, liveCalls |-> liveCalls]

\* call c throws value
Reject(c, req, value, liveCalls) ==
    /\ calls' = [calls EXCEPT ![c] = DoneCall]
    /\ ev' = [op |-> "smartFetch", call |-> c, phase |-> "rejected", req |-> req,
              from |-> "live", value |-> value, liveCalls |-> liveCalls]

\* the caller awaits each call before it makes the next
NextCall(c) == /\ calls[c].pc = "new"
               /\ \A d \in Calls : d < c => calls[d].pc = "done"

\* smartFetch(req.url, req) up to its first await: the stored response when
\* mocking is on and there is one, else the live call is issued
smartFetch(c, req) ==
    /\ NextCall(c)
    /\ IF ServeStored(req)
       THEN Resolve(c, req, "stored",
                    StoredView(getStoredResponse(req.url, MethodOf(req), req.body)), 0)
       ELSE /\ calls' = [calls EXCEPT ![c] = [pc |-> "fetching", req |-> req, liveCalls |-> 1]]
            /\ ev' = [op |-> "smartFetch", call |-> c, phase |-> "fetching", req |-> req]
    /\ UNCHANGED <<disk, self, options, isMocking, mocks, storedResponses, loader, clock>>

\* the catch block, entered by call c with the caught error
Catch(c, error) ==
    LET req == calls[c].req
        stored == MapSet(storedResponses, KeyOf(req), ErrorRecord(req, error, clock))
    IN  IF StoreErrors
        THEN /\ storedResponses' = stored
             /\ clock' = clock + 1
             /\ IF saveToStorageWrites
                THEN /\ calls' = [calls EXCEPT ![c] =
                            [pc |-> "savingError", req |-> req, liveCalls |-> calls[c].liveCalls,
                             error |-> error, responses |-> stored]]
                     /\ ev' = [op |-> "smartFetch", call |-> c, phase |-> "savingError",
                               req |-> req, error |-> error]
                ELSE Reject(c, req, FailureView(error), calls[c].liveCalls)
        ELSE /\ Reject(c, req, FailureView(error), calls[c].liveCalls)
             /\ UNCHANGED <<storedResponses, clock>>

\* the rest of the try block after a live success with the parsed data
StoreSuccess(c, data, response) ==
    LET req == calls[c].req
        stored == MapSet(storedResponses, KeyOf(req), SuccessRecord(req, data, response, clock))
    IN  IF StoreReal
        THEN /\ storedResponses' = stored
             /\ clock' = clock + 1
             /\ IF saveToStorageWrites
                THEN /\ calls' = [calls EXCEPT ![c] =
                            [pc |-> "saving", req |-> req, liveCalls |-> calls[c].liveCalls,
                             data |-> data, response |-> response, responses |-> stored]]
                     /\ ev' = [op |-> "smartFetch", call |-> c, phase |-> "saving",
                               req |-> req, data |-> data]
                ELSE Resolve(c, req, "live", LiveView(data, response), calls[c].liveCalls)
        ELSE /\ Resolve(c, req, "live", LiveView(data, response), calls[c].liveCalls)
             /\ UNCHANGED <<storedResponses, clock>>

\* the live call of c comes back (and, for a response, its body has been read)
LiveCallCompletes(c, outcome) ==
    /\ calls[c].pc = "fetching"
    /\ IF LiveThrows(outcome)
       THEN Catch(c, LiveError(outcome))
       ELSE StoreSuccess(c, outcome.body, outcome)
    /\ UNCHANGED <<disk, self, options, isMocking, mocks, loader>>

\* clearStoredResponses() up to its await
clearStoredResponses(c) ==
    /\ NextCall(c)
    /\ storedResponses' = EmptyMap
    /\ IF saveToStorageWrites
       THEN /\ calls' = [calls EXCEPT ![c] = [pc |-> "clearing", responses |-> EmptyMap]]
            /\ ev' = [op |-> "clearStoredResponses", call |-> c, phase |-> "saving"]
       ELSE /\ calls' = [calls EXCEPT ![c] = DoneCall]
            /\ ev' = [op |-> "clearStoredResponses", call |-> c, phase |-> "resolved"]
    /\ UNCHANGED <<disk, self, options, isMocking, mocks, loader, clock>>

\* the saveResponses that call c awaits has written the file
SaveCompletes(c) ==
    /\ calls[c].pc \in {"saving", "savingError", "clearing"}
    /\ disk' = saveResponses(calls[c].responses)
    /\ CASE calls[c].pc = "saving" ->
              Resolve(c, calls[c].req, "live",
                      LiveView(calls[c].data, calls[c].response), calls[c].liveCalls)
         [] calls[c].pc = "savingError" ->
              Reject(c, calls[c].req, FailureView(calls[c].error), calls[c].liveCalls)
         [] calls[c].pc = "clearing" ->
              /\ calls' = [calls EXCEPT ![c] = DoneCall]
              /\ ev' = [op |-> "clearStoredResponses", call |-> c, phase |-> "resolved"]
    /\ UNCHANGED <<self, options, isMocking, mocks, storedResponses, loader, clock>>

\* the saveResponses that call c awaits rejects, leaving the file as `left`.
\* Awaited in the try block it lands in the catch block; awaited in the catch
\* block, or by clearStoredResponses, it is what the call rejects with.
SaveFails(c, left) ==
    /\ calls[c].pc \in {"saving", "savingError", "clearing"}
    /\ disk' = left
    /\ CASE calls[c].pc = "saving" -> Catch(c, FsError)
         [] calls[c].pc = "savingError" ->
              /\ Reject(c, calls[c].req, FsError, calls[c].liveCalls)
              /\ UNCHANGED <<storedResponses, clock>>
         [] calls[c].pc = "clearing" ->
              /\ calls' = [calls EXCEPT ![c] = DoneCall]
              /\ ev' = [op |-> "clearStoredResponses", call |-> c, phase |-> "rejected",
                        value |-> FsError]
              /\ UNCHANGED <<storedResponses, clock>>
    /\ UNCHANGED <<self, options, isMocking, mocks, loader>>

-----------------------------------------------------------------------------

Next ==
    \/ \E opts \in ExplicitOptions, env \in Environments : Constructor(opts, env)
    \/ LoadCompletes
    \/ enableMocking
    \/ disableMocking
    \/ enableRealResponseStorage
    \/ disableRealResponseStorage
    \/ enableErrorResponseStorage
    \/ disableErrorResponseStorage
    \/ \E c \in Calls, req \in Requests : smartFetch(c, req)
    \/ \E c \in Calls, outcome \in LiveOutcomes : LiveCallCompletes(c, outcome)
    \/ \E c \in Calls : clearStoredResponses(c)
    \/ \E c \in Calls : SaveCompletes(c)
    \/ \E c \in Calls : \E left \in FailedSaveLeaves(disk) : SaveFails(c, left)

Spec == Init /\ [][Next]_vars

-----------------------------------------------------------------------------
(* The same mocker constructed in a directory where an earlier run may have   *)
(* left a responses.json.                                                     *)

\* the live 200 answers that carry a payload
LiveSuccesses == {o \in LiveOutcomes : ~LiveThrows(o)}

\* what an earlier run can have left: no file, or the file saveToStorage wrote
\* after one smartFetch stored its live success
PriorFiles ==
    {Absent} \cup
    {saveResponses(MapSet(EmptyMap, KeyOf(req), SuccessRecord(req, o.body, o, 0))) :
        req \in Requests, o \in LiveSuccesses}

InitStored ==
    \E opts \in ExplicitOptions, env \in Environments, prior \in PriorFiles :
        /\ disk = prior
        /\ self = "first"
        /\ options = ConstructorOptions(opts, env)
        /\ isMocking = ConstructorMocking(opts, env)
        /\ mocks = <<>>
        /\ storedResponses = EmptyMap
        /\ loader = ConstructorLoader(ConstructorOptions(opts, env))
        /\ calls = [c \in Calls |-> NewCall]
        /\ clock = 1
        /\ ev = [op |-> "constructor", opts |-> opts, env |-> env]

SpecStored == InitStored /\ [][Next]_vars

-----------------------------------------------------------------------------
(* addMock and the registry of static mocks *)

\* payloads of static mocks
MockPayloads == {[t |-> "json", v |-> "pong"], [t |-> "json", v |-> "ping"]}

\* the MockConfig objects given to addMock: delay is optional, and 0 is a delay
MockConfigs ==
    {[endpoint |-> TheUrl, method |-> m, response |-> r] : m \in {GET, POST}, r \in MockPayloads}
    \cup {[endpoint |-> TheUrl, method |-> m, response |-> r, delay |-> 0] :
             m \in {GET, POST}, r \in MockPayloads}

\* registering whatever is registered already
MockExistsNever(mock) == FALSE

\* this.state.mocks.some(m => m.endpoint === config.endpoint && m.method === config.method)
MockExists(mock) ==
    \E i \in 1..Len(mocks) :
        mocks[i].endpoint = mock.endpoint /\ mocks[i].method = mock.method

\* { ...config, delay } with delay = config.delay ?? this.options.defaultDelay
MockEntry(mock) ==
    [f \in DOMAIN mock \cup {"delay"} |->
        IF f = "delay" THEN Coalesce(mock, "delay", options.defaultDelay) ELSE mock[f]]

addMock(mock) ==
    /\ Running
    /\ mocks' = IF MockExists(mock) THEN mocks ELSE Append(mocks, MockEntry(mock))
    /\ ev' = [op |-> "addMock", config |-> mock]
    /\ UNCHANGED <<disk, self, options, isMocking, storedResponses, loader, calls, clock>>

\* the requests and the live answers looked at together with static mocks
MockRequests == {req \in Requests : req.body \in {Undefined, BodyAa}}
MockOutcomes == {o \in LiveOutcomes : o.kind = "response" /\ o.body # Unparseable}

NextMocks ==
    \/ \E mock \in MockConfigs : addMock(mock)
    \/ LoadCompletes
    \/ enableMocking
    \/ disableMocking
    \/ enableRealResponseStorage
    \/ disableRealResponseStorage
    \/ enableErrorResponseStorage
    \/ disableErrorResponseStorage
    \/ \E c \in Calls, req \in MockRequests : smartFetch(c, req)
    \/ \E c \in Calls, outcome \in MockOutcomes : LiveCallCompletes(c, outcome)
    \/ \E c \in Calls : SaveCompletes(c)

SpecMocks == Init /\ [][NextMocks]_vars

-----------------------------------------------------------------------------
(* The constructor with any of the options left out and with the four        *)
(* environment variables set or not, and the config getter read after it.    *)

\* the text of 'true', 'false', '', '0', '250', '1000'
TrueText == Str(<<116, 114, 117, 101>>)
FalseText == Str(<<102, 97, 108, 115, 101>>)
EmptyText == Str(<<>>)
DelayTexts == {Str(<<48>>), Str(<<50, 53, 48>>)}
DefaultDelayText == Str(<<49, 48, 48, 48>>)

\* parseInt of a text of decimal digits
RECURSIVE parseDigits(_, _, _)
parseDigits(chars, i, n) ==
    IF i > Len(chars) THEN n ELSE parseDigits(chars, i + 1, 10 * n + (chars[i] - 48))

parseInt(text) == parseDigits(text.s, 1, 0)

\* process.env: each variable unset or set to a text
ProcessEnvironments ==
    [MOCKING_ENABLED : {Undefined, TrueText, FalseText},
     MOCKING_STORE_REAL_API_CALL : {Undefined, TrueText, FalseText},
     MOCKING_SAVE_ERROR_RESPONSE : {Undefined, TrueText},
     MOCKING_DELAY : {Undefined, EmptyText} \cup DelayTexts]

\* the constructor's `env`
Environment(processEnv) ==
    [isMocking |-> processEnv.MOCKING_ENABLED = TrueText,
     defaultDelay |-> parseInt(OrElse(processEnv.MOCKING_DELAY, DefaultDelayText)),
     storeRealResponses |-> processEnv.MOCKING_STORE_REAL_API_CALL = TrueText,
     storeErrorResponses |-> processEnv.MOCKING_SAVE_ERROR_RESPONSE = TrueText]

\* explicit delays given to the constructor
OptionDelays == {0, 50}

\* options objects with any of the four options left out
PartialOptions ==
    {[f \in given |-> IF f = "defaultDelay" THEN d ELSE flags[f]] :
        given \in SUBSET (FlagNames \cup {"defaultDelay"}),
        flags \in [FlagNames -> BOOLEAN],
        d \in OptionDelays}

InitConfig ==
    \E opts \in PartialOptions, processEnv \in ProcessEnvironments :
        /\ disk = Absent
        /\ self = "first"
        /\ options = ConstructorOptions(opts, Environment(processEnv))
        /\ isMocking = ConstructorMocking(opts, Environment(processEnv))
        /\ mocks = <<>>
        /\ storedResponses = EmptyMap
        /\ loader = ConstructorLoader(ConstructorOptions(opts, Environment(processEnv)))
        /\ calls = [c \in Calls |-> NewCall]
        /\ clock = 1
        /\ ev = [op |-> "constructor", opts |-> opts, env |-> Environment(processEnv),
                 processEnv |-> processEnv]

\* the caller reads mocker.config right after `new ApiMocker(opts)`
ReadConfig ==
    /\ ev.op = "constructor"
    /\ ev' = [op |-> "config", value |-> config, opts |-> ev.opts, env |-> ev.env,
              processEnv |-> ev.processEnv]
    /\ UNCHANGED <<disk, self, options, isMocking, mocks, storedResponses, loader, calls, clock>>

NextConfig == ReadConfig

SpecConfig == InitConfig /\ [][NextConfig]_vars

-----------------------------------------------------------------------------
(* Properties.  A step is named by what it leaves in ev; what held when the   *)
(* step was taken is read from the unprimed variables.                        *)

\* this step is the caller making call c as smartFetch(req.url, req)
CallsSmartFetch(c, req) ==
    /\ calls[c].pc = "new"
    /\ calls'[c].pc # "new"
    /\ ev'.op = "smartFetch"
    /\ ev'.req = req

\* call c is a smartFetch waiting for its live call or for a save
Pending(c) == calls[c].pc \in {"fetching", "saving", "savingError"}

\* this step settles the pending smartFetch call c
Settles(c) == Pending(c) /\ calls'[c].pc = "done"

\* rec was stored for the request (url, method, body) of req
SameRequest(rec, req) ==
    /\ rec.request.url = req.url
    /\ rec.request.method = MethodOf(req)
    /\ Prop(rec.request, "body") = req.body

\* C1 (cache precedence): a smartFetch call made while mocking is enabled and the
\* map holds a record under the request's key makes no live call: it resolves at
\* once with ok = true, status = 200 and the headers of that record.
C1_CachePrecedence ==
    [][\A c \in Calls, req \in Requests :
        (CallsSmartFetch(c, req) /\ isMocking /\ KeyOf(req) \in DOMAIN storedResponses)
        => /\ calls'[c].pc = "done"
           /\ ev'.phase = "resolved"
           /\ ev'.liveCalls = 0
           /\ ev'.value.ok = TRUE
           /\ ev'.value.status = 200
           /\ ev'.value.headers = storedResponses[KeyOf(req)].headers]_vars

\* a call was just served from a record stored with its response headers
C1_Witness ==
    /\ ev.op = "smartFetch"
    /\ ev.phase = "resolved"
    /\ ev.from = "stored"
    /\ isMocking
    /\ KeyOf(ev.req) \in DOMAIN storedResponses
    /\ ev.value.headers = headersToRecord(ResponseHeaders)
    /\ ev.liveCalls = 0

\* C3 (fallback): a smartFetch call made while mocking is disabled, or while no
\* record is held under the request's key, issues the live call, and a pending
\* call never issues another: it settles having made exactly one.
C3_Fallback ==
    [][/\ \A c \in Calls, req \in Requests :
            (CallsSmartFetch(c, req) /\ ~(isMocking /\ KeyOf(req) \in DOMAIN storedResponses))
            => (calls'[c].pc = "fetching" /\ calls'[c].liveCalls = 1)
       /\ \A c \in Calls :
            Pending(c) => /\ calls[c].liveCalls = 1
                          /\ IF calls'[c].pc = "done"
                             THEN ev'.call = c /\ ev'.from = "live" /\ ev'.liveCalls = 1
                             ELSE Pending(c)' /\ calls'[c].liveCalls = 1]_vars

\* mocking is on, a record is held but none under this request's key, and the
\* live call is out
C3_Witness ==
    /\ ev.op = "smartFetch"
    /\ ev.phase = "fetching"
    /\ calls[ev.call].liveCalls = 1
    /\ isMocking
    /\ KeyOf(ev.req) \notin DOMAIN storedResponses
    /\ storedResponses # EmptyMap

\* C2 (replay payload equality): when the record held for a request was stored
\* for that same (url, method, body) from a live success with payload P, the
\* response served from it has json() = P.
C2_ReplayPayloadEquality ==
    [][\A c \in Calls, req \in Requests :
        (/\ CallsSmartFetch(c, req)
         /\ isMocking
         /\ KeyOf(req) \in DOMAIN storedResponses
         /\ storedResponses[KeyOf(req)].response.success
         /\ SameRequest(storedResponses[KeyOf(req)], req))
        => /\ ev'.phase = "resolved"
           /\ ev'.value.json = storedResponses[KeyOf(req)].response.data]_vars

\* C4 (store on success, scenario A): on the first instance, whose store was
\* empty, when its first and only call so far resolves after storing a live
\* success, the map and the file both hold the record under the request's key,
\* with the payload and the request's url, method and body, and the file holds
\* nothing else.
C4_StoreOnSuccess ==
    [][(/\ self = "first"
        /\ calls[1].pc = "saving"
        /\ \A c \in Calls \ {1} : calls[c].pc = "new"
        /\ calls'[1].pc = "done"
        /\ ev'.phase = "resolved")
       => LET req == ev'.req
              key == KeyOf(ev'.req)
              Holds(m) ==
                  /\ key \in DOMAIN m
                  /\ m[key].response = [data |-> ev'.value.json, error |-> Null, success |-> TRUE]
                  /\ SameRequest(m[key], req)
          IN  /\ Holds(storedResponses')
              /\ disk'.t = "file"
              /\ Holds(disk'.content)
              /\ DOMAIN disk'.content = {key}]_vars

\* this step is call c putting a save to the file in flight
IssuesSave(c) ==
    /\ calls'[c].pc \in {"saving", "savingError"}
    /\ calls'[c].pc # calls[c].pc

\* C5 as claimed (write-through gating): no step of a smartFetch call taken while
\* storeRealResponses is false changes the file.
C5_WriteThroughGatingAsClaimed ==
    [][(ev'.op = "smartFetch" /\ ~options.storeRealResponses) => disk' = disk]_vars

\* C5 amended: a smartFetch call puts a save in flight only while
\* storeRealResponses is true; while it is false, a step of a smartFetch call
\* changes the file only by finishing a save the call had in flight already.
C5_WriteThroughGating ==
    [][\A c \in Calls :
        (ev'.op = "smartFetch" /\ ev'.call = c)
        => /\ IssuesSave(c) => options.storeRealResponses
           /\ ~options.storeRealResponses =>
                 /\ ~IssuesSave(c)
                 /\ disk' # disk => calls[c].pc \in {"saving", "savingError"}]_vars

\* with storage off a live success has come back to the caller, nothing was
\* kept for it and the file a first instance wrote is as it was
C5_Witness ==
    /\ ev.op = "smartFetch"
    /\ ev.phase = "resolved"
    /\ ev.from = "live"
    /\ ~options.storeRealResponses
    /\ self = "second"
    /\ disk.t = "file"
    /\ KeyOf(ev.req) \notin DOMAIN disk.content
    /\ KeyOf(ev.req) \notin DOMAIN storedResponses

\* this step is call c learning that its live call failed
LiveCallFails(c) ==
    /\ calls[c].pc = "fetching"
    /\ ev'.op = "smartFetch"
    /\ ev'.call = c
    /\ ev'.phase \in {"savingError", "rejected"}

\* this step is call c learning that its live call succeeded
LiveCallSucceeds(c) ==
    /\ calls[c].pc = "fetching"
    /\ ev'.op = "smartFetch"
    /\ ev'.call = c
    /\ ev'.phase \in {"saving", "resolved"}

\* the step puts a new record under key, one with the given success flag
PutsRecord(key, success) ==
    /\ key \in DOMAIN storedResponses'
    /\ storedResponses'[key] # MapGet(storedResponses, key)
    /\ storedResponses'[key].response.success = success

\* C6 (error gating): a failing live call creates or replaces the record under
\* its key exactly when storeRealResponses and storeErrorResponses are both set
\* at that moment; otherwise it leaves the map and the file as they are and puts
\* no save in flight.  A successful live call stores its record whenever
\* storeRealResponses is set, whatever storeErrorResponses is.
C6_ErrorGating ==
    [][\A c \in Calls :
        /\ LiveCallFails(c) =>
             IF options.storeRealResponses /\ options.storeErrorResponses
             THEN PutsRecord(KeyOf(calls[c].req), FALSE)
             ELSE /\ storedResponses' = storedResponses
                  /\ disk' = disk
                  /\ calls'[c].pc = "done"
        /\ (LiveCallSucceeds(c) /\ options.storeRealResponses)
             => PutsRecord(KeyOf(calls[c].req), TRUE)]_vars

\* with storeRealResponses set and storeErrorResponses not, a failing call has
\* just left the success record of an earlier call in the map and in the file
C6_Witness ==
    /\ ev.op = "smartFetch"
    /\ ev.phase = "rejected"
    /\ "ok" \in DOMAIN ev.value
    /\ ~ev.value.ok
    /\ options.storeRealResponses
    /\ ~options.storeErrorResponses
    /\ KeyOf(ev.req) \in DOMAIN storedResponses
    /\ storedResponses[KeyOf(ev.req)].response.success
    /\ disk = saveResponses(storedResponses)

\* the file holds a record stored for the request of req from a live success
Persisted(req) ==
    /\ disk.t = "file"
    /\ KeyOf(req) \in DOMAIN disk.content
    /\ disk.content[KeyOf(req)].response.success
    /\ SameRequest(disk.content[KeyOf(req)], req)

\* C7 (cross-instance replay, scenario B): once a first instance has persisted a
\* success record for a request, a second instance constructed with
\* {isMocking: true, storeRealResponses: true} on the same file serves a
\* smartFetch for that request from the stored record, with no live call, at
\* whatever point after construction the call is made; here the call made as
\* soon as the constructor has returned, when the load it started is still out.
C7_CrossInstanceReplay ==
    [][\A c \in Calls, req \in Requests :
        (/\ CallsSmartFetch(c, req)
         /\ self = "second"
         /\ ev.op = "constructor"
         /\ ev.opts.isMocking
         /\ ev.opts.storeRealResponses
         /\ Persisted(req))
        => /\ ev'.phase = "resolved"
           /\ ev'.from = "stored"
           /\ ev'.liveCalls = 0]_vars

\* C8 (mock-only instance): a second instance constructed with
\* storeRealResponses false, with mocking on and storage still off, serves a
\* smartFetch for a request the file holds a record of from that record, with
\* no live call and without changing the file.
C8_MockOnlyInstance ==
    [][\A c \in Calls, req \in Requests :
        (/\ CallsSmartFetch(c, req)
         /\ self = "second"
         /\ loader.pc = "none"
         /\ isMocking
         /\ ~options.storeRealResponses
         /\ Persisted(req))
        => /\ ev'.phase = "resolved"
           /\ ev'.from = "stored"
           /\ ev'.liveCalls = 0
           /\ disk' = disk]_vars

\* C9 (stored failure replays as failure): a smartFetch call made with mocking
\* on for a request under whose key the map holds a failure record stored for
\* that same request is reported as a failure: its value has ok = false, a
\* status other than 200, and the stored failure's message and name.
C9_StoredFailureReplays ==
    [][\A c \in Calls, req \in Requests :
        (/\ CallsSmartFetch(c, req)
         /\ isMocking
         /\ KeyOf(req) \in DOMAIN storedResponses
         /\ ~storedResponses[KeyOf(req)].response.success
         /\ SameRequest(storedResponses[KeyOf(req)], req))
        => /\ calls'[c].pc = "done"
           /\ ~ev'.value.ok
           /\ ev'.value.status # 200
           /\ ev'.value.json.error.message = storedResponses[KeyOf(req)].response.error.message
           /\ ev'.value.json.error.name = storedResponses[KeyOf(req)].response.error.name]_vars

\* the value has ok = false, the accessors of a response, and a json() of
\* {error: {message, name, ...}, data: null, success: false}
IsFailureShaped(value) ==
    /\ {"ok", "json", "text", "status", "statusText", "headers"} \subseteq DOMAIN value
    /\ ~value.ok
    /\ value.json.data = Null
    /\ value.json.success = FALSE
    /\ {"message", "name"} \subseteq DOMAIN value.json.error

\* this step settles call c, whose live call failed (at transport level, with a
\* status that is not ok, or with a body that does not parse)
LiveFailureSettles(c) ==
    /\ Settles(c)
    /\ \/ LiveCallFails(c)
       \/ calls[c].pc = "savingError" /\ calls[c].error # FsError

\* C10 (live failures are never swallowed and are uniformly shaped): a call
\* whose live call failed does not resolve; it rejects with a failure-shaped
\* value, whatever the storage flags are and also when the save made in the
\* catch block fails.
C10_LiveFailuresShaped ==
    [][\A c \in Calls :
        LiveFailureSettles(c)
        => /\ ev'.phase = "rejected"
           /\ IsFailureShaped(ev'.value)]_vars

\* this step has call c reject with a failure-shaped value
RejectsShaped(c) ==
    /\ Settles(c)
    /\ ev'.call = c
    /\ ev'.phase = "rejected"
    /\ IsFailureShaped(ev'.value)

\* C11 (failure status mapping): the failure value smartFetch rejects with has
\* status 0 when the live call failed at transport level, and the status code
\* of the response when the target answered with a status that is not ok.
C11_FailureStatusMapping ==
    [][\A c \in Calls :
        RejectsShaped(c)
        => LET error == ev'.value.json.error
           IN  /\ (\E e \in TransportErrors : ErrorDetails(e) = error)
                    => ev'.value.status = 0
               /\ "status" \in DOMAIN error.message
                    => ev'.value.status = error.message.status]_vars

\* C12 (a persistence failure never blocks the response): when the live call
\* of a smartFetch succeeded with payload P and the record is being saved, the
\* call comes out of the save resolved with payload P whether the save worked
\* or not, and a failed save writes no failure record into the map.
C12_PersistenceFailureNeverBlocks ==
    [][\A c \in Calls :
        (calls[c].pc = "saving" /\ calls'[c].pc # "saving")
        => /\ calls'[c].pc = "done"
           /\ ev'.phase = "resolved"
           /\ ev'.value.json = calls[c].data
           /\ storedResponses' = storedResponses]_vars

\* C13 (record retention): a key the map of an instance holds stays in the map
\* through every step of that instance other than clearStoredResponses; not the
\* completion of the constructor's load, nor a store under another key, drops it.
C13_RecordRetention ==
    [][(self' = self /\ ev'.op # "clearStoredResponses")
       => \A k \in DOMAIN storedResponses : k \in DOMAIN storedResponses']_vars

\* this step completes the clearStoredResponses call c without an error
ClearCompletes(c) ==
    /\ calls[c].pc \in {"new", "clearing"}
    /\ calls'[c].pc = "done"
    /\ ev'.op = "clearStoredResponses"
    /\ ev'.call = c
    /\ ev'.phase = "resolved"

\* C14 (clear empties both layers): when clearStoredResponses completes, the map
\* is empty and so is the file, whatever storeRealResponses is.
C14_ClearEmptiesBothLayers ==
    [][\A c \in Calls :
        ClearCompletes(c)
        => /\ storedResponses' = EmptyMap
           /\ loadResponses(disk') = EmptyMap]_vars

\* this step is the caller making call c as clearStoredResponses()
ClearStarts(c) ==
    /\ calls[c].pc = "new"
    /\ ev'.op = "clearStoredResponses"
    /\ ev'.call = c

\* C15 (idempotent clear): a clearStoredResponses made right after one that has
\* completed finds the map and the file empty and leaves them so (what it
\* writes, if it writes, is the empty store); and a clearStoredResponses made
\* while the file is absent completes without an error, unless the write of
\* the file itself fails.
C15_IdempotentClear ==
    [][\A c \in Calls :
        /\ (ClearStarts(c) /\ ev.op = "clearStoredResponses" /\ ev.phase = "resolved")
           => /\ storedResponses = EmptyMap
              /\ loadResponses(disk) = EmptyMap
              /\ storedResponses' = EmptyMap
              /\ disk' = disk
              /\ calls'[c].pc = "clearing" => calls'[c].responses = EmptyMap
        /\ (/\ ev'.op = "clearStoredResponses"
            /\ ev'.call = c
            /\ calls'[c].pc = "done"
            /\ disk = Absent
            /\ calls[c].pc = "new" \/ disk' = File(EmptyMap))
           => ev'.phase = "resolved"]_vars

\* what getStoredResponse(req.url, method, req.body) returns when the map is m
StoredFor(m, req) == MapGet(m, StorageKey(req.url, MethodOf(req), req.body))

\* C16 (round trip): in the state smartFetch leaves when it has stored a record
\* for (url, method, body), getStoredResponse(url, method, body) returns that
\* record: the outcome, the response headers and the request it was stored
\* with; and a request for which getStoredResponse returned absent before still
\* gets absent, unless its key is the key of the request just stored.
C16_RoundTrip ==
    [][\A c \in Calls :
        IssuesSave(c)
        => LET req == calls[c].req
               rec == StoredFor(storedResponses', req)
           IN  /\ rec # Undefined
               /\ SameRequest(rec, req)
               /\ rec.request.headers = RequestInfo(req).headers
               /\ IF calls'[c].pc = "saving"
                  THEN /\ rec.response = [data |-> calls'[c].data, error |-> Null, success |-> TRUE]
                       /\ rec.headers = headersToRecord(calls'[c].response.headers)
                  ELSE /\ rec.response = [error |-> ErrorDetails(calls'[c].error),
                                          data |-> Null, success |-> FALSE]
                       /\ rec.headers = EmptyHeaders
               /\ \A other \in Requests :
                    (/\ StoredFor(storedResponses, other) = Undefined
                     /\ StorageKey(other.url, MethodOf(other), other.body)
                          # StorageKey(req.url, MethodOf(req), req.body))
                    => StoredFor(storedResponses', other) = Undefined]_vars

\* a POST with a body has just been stored while the record of the plain GET
\* is held too: the POST reads back with its payload, the GET with its own
C16_Witness ==
    /\ ev.op = "smartFetch"
    /\ ev.phase = "saving"
    /\ ev.req.body = BodyAa
    /\ getStoredResponse(TheUrl, POST, BodyAa) # Undefined
    /\ getStoredResponse(TheUrl, POST, BodyAa).response.data = ev.data
    /\ getStoredResponse(TheUrl, POST, BodyAa).request.body = BodyAa
    /\ getStoredResponse(TheUrl, GET, Undefined) # Undefined
    /\ getStoredResponse(TheUrl, GET, Undefined) # getStoredResponse(TheUrl, POST, BodyAa)

\* the entries of the registry m for the pair (endpoint, method)
MocksFor(m, endpoint, method) ==
    {i \in 1..Len(m) : m[i].endpoint = endpoint /\ m[i].method = method}

\* C17 (static mock is served, scenario C): a smartFetch made with mocking on for
\* an endpoint and method that addMock has registered with payload R and delay
\* d resolves with json() = R after a delay of d, makes no live call and leaves
\* the file alone.
C17_StaticMockServed ==
    [][\A c \in Calls, req \in Requests :
        (/\ CallsSmartFetch(c, req)
         /\ isMocking
         /\ MocksFor(mocks, req.url, MethodOf(req)) # {})
        => \A i \in MocksFor(mocks, req.url, MethodOf(req)) :
             /\ ev'.phase = "resolved"
             /\ ev'.liveCalls = 0
             /\ ev'.value.json = mocks[i].response
             /\ "delay" \in DOMAIN ev'
             /\ ev'.delay = mocks[i].delay
             /\ disk' = disk]_vars

\* C18 (first registration wins): the registry never holds two entries for one
\* (endpoint, method) pair; an entry, once in, stays as it is, so that it has
\* the payload and delay of the first registration of its pair; addMock for a
\* registered pair leaves the registry unchanged, and for a new pair appends
\* the entry with the delay given, or defaultDelay when no delay is given.
C18_FirstRegistrationWins ==
    [][/\ \A i \in 1..Len(mocks') : MocksFor(mocks', mocks'[i].endpoint, mocks'[i].method) = {i}
       /\ Len(mocks') >= Len(mocks)
       /\ \A i \in 1..Len(mocks) : mocks'[i] = mocks[i]
       /\ ev'.op # "addMock" => mocks' = mocks
       /\ ev'.op = "addMock" =>
            LET mock == ev'.config
            IN  IF MocksFor(mocks, mock.endpoint, mock.method) # {}
                THEN mocks' = mocks
                ELSE /\ Len(mocks') = Len(mocks) + 1
                     /\ mocks'[Len(mocks')].endpoint = mock.endpoint
                     /\ mocks'[Len(mocks')].method = mock.method
                     /\ mocks'[Len(mocks')].response = mock.response
                     /\ mocks'[Len(mocks')].delay =
                          IF "delay" \in DOMAIN mock THEN mock.delay
                          ELSE options.defaultDelay]_vars

\* a registration for a pair that is registered with another payload has just
\* been made; the registry holds one entry registered with delay 0 and one that
\* took the default delay
C18_Witness ==
    /\ ev.op = "addMock"
    /\ \E i \in MocksFor(mocks, ev.config.endpoint, ev.config.method) :
            mocks[i].response # ev.config.response
    /\ Len(mocks) = 2
    /\ \E i, j \in 1..Len(mocks) : mocks[i].delay = 0 /\ mocks[j].delay = options.defaultDelay

\* what a toggle has to leave alone besides the flags: the default delay, the
\* registry, the map and the file
ToggleFrame ==
    /\ config'.defaultDelay = config.defaultDelay
    /\ mocks' = mocks
    /\ storedResponses' = storedResponses
    /\ disk' = disk

\* C20 (toggles set exactly their own flag): after enableMocking /
\* disableMocking config.isMocking is true / false, after enable- /
\* disableRealResponseStorage config.storeRealResponses and
\* isRealResponseStorageEnabled() are, after enable- /
\* disableErrorResponseStorage config.storeErrorResponses and
\* isErrorResponseStorageEnabled() are, whatever the flag was before; the two
\* other flags, the default delay, the registry, the map and the file are as
\* they were.
C20_TogglesSetTheirFlag ==
    [][/\ ev'.op \in {"enableMocking", "disableMocking"}
          => /\ config'.isMocking = (ev'.op = "enableMocking")
             /\ config'.storeRealResponses = config.storeRealResponses
             /\ config'.storeErrorResponses = config.storeErrorResponses
             /\ isRealResponseStorageEnabled' = isRealResponseStorageEnabled
             /\ isErrorResponseStorageEnabled' = isErrorResponseStorageEnabled
             /\ ToggleFrame
       /\ ev'.op \in {"enableRealResponseStorage", "disableRealResponseStorage"}
          => /\ config'.storeRealResponses = (ev'.op = "enableRealResponseStorage")
             /\ isRealResponseStorageEnabled' = (ev'.op = "enableRealResponseStorage")
             /\ config'.isMocking = config.isMocking
             /\ config'.storeErrorResponses = config.storeErrorResponses
             /\ isErrorResponseStorageEnabled' = isErrorResponseStorageEnabled
             /\ ToggleFrame
       /\ ev'.op \in {"enableErrorResponseStorage", "disableErrorResponseStorage"}
          => /\ config'.storeErrorResponses = (ev'.op = "enableErrorResponseStorage")
             /\ isErrorResponseStorageEnabled' = (ev'.op = "enableErrorResponseStorage")
             /\ config'.isMocking = config.isMocking
             /\ config'.storeRealResponses = config.storeRealResponses
             /\ isRealResponseStorageEnabled' = isRealResponseStorageEnabled
             /\ ToggleFrame]_vars

\* real storage has just been turned off while mocking and error storage are on,
\* a mock is registered, and the map and the file hold a record
C20_Witness ==
    /\ ev.op = "disableRealResponseStorage"
    /\ ~config.storeRealResponses
    /\ ~isRealResponseStorageEnabled
    /\ config.isMocking
    /\ isErrorResponseStorageEnabled
    /\ mocks # <<>>
    /\ storedResponses # EmptyMap
    /\ disk.t = "file"

\* the four fields of the config snapshot
ConfigFields == FlagNames \cup {"defaultDelay"}

\* C19 (configuration precedence): in the config read right after construction,
\* each of isMocking, storeRealResponses, storeErrorResponses and defaultDelay
\* is the value given to the constructor when one is given, an explicit false
\* or 0 included, and the value derived from the environment when none is.
C19_ConfigurationPrecedence ==
    ev.op = "config"
    => \A f \in ConfigFields :
         ev.value[f] = IF f \in DOMAIN ev.opts THEN ev.opts[f] ELSE ev.env[f]

\* mocking given as false against MOCKING_ENABLED=true, a delay of 0 against
\* MOCKING_DELAY=250, and storeRealResponses left to the environment, which
\* sets it
C19_Witness ==
    /\ ev.op = "config"
    /\ DOMAIN ev.opts = {"isMocking", "defaultDelay"}
    /\ ev.opts.isMocking = FALSE
    /\ ev.opts.defaultDelay = 0
    /\ ev.processEnv.MOCKING_ENABLED = TrueText
    /\ ev.processEnv.MOCKING_DELAY = Str(<<50, 53, 48>>)
    /\ ev.env.defaultDelay = 250
    /\ ev.processEnv.MOCKING_STORE_REAL_API_CALL = TrueText
    /\ ev.value = [isMocking |-> FALSE, storeRealResponses |-> TRUE,
                   storeErrorResponses |-> FALSE, defaultDelay |-> 0]

\* the (url, method, body) a record was stored for, as a request
RequestOf(rec) ==
    [url |-> rec.request.url, method |-> rec.request.method, body |-> Prop(rec.request, "body")]

\* C21 (fingerprint determinism and consistency): the key is the same function
\* of (url, method, body) wherever it is computed.  The store on a live success
\* and the store on a live failure put their record under the very key that
\* getStoredResponse computes for the request, whatever the flags, the history
\* and the instance are; and every record the map holds, whichever path or
\* instance wrote it, is what getStoredResponse returns for the triple it was
\* stored for.
C21_FingerprintDeterminism ==
    [][/\ \A c \in Calls :
            IssuesSave(c)
            => LET req == calls[c].req
                   key == StorageKey(req.url, MethodOf(req), req.body)
               IN  /\ DOMAIN storedResponses' = DOMAIN storedResponses \cup {key}
                   /\ \A k \in DOMAIN storedResponses \ {key} :
                        storedResponses'[k] = storedResponses[k]
                   /\ StoredFor(storedResponses', req) = storedResponses'[key]
                   /\ storedResponses'[key].timestamp = Timestamp(clock)
       /\ \A k \in DOMAIN storedResponses' :
            StoredFor(storedResponses', RequestOf(storedResponses'[k])) = storedResponses'[k]]_vars

\* a second instance has loaded from the file the failure record a first
\* instance stored, and has just served it to a call for the same triple
C21_Witness ==
    /\ self = "second"
    /\ loader.pc = "done"
    /\ ev.op = "smartFetch"
    /\ ev.phase = "resolved"
    /\ ev.from = "stored"
    /\ \E k \in DOMAIN storedResponses :
          /\ ~storedResponses[k].response.success
          /\ storedResponses[k].request.method = POST
          /\ StoredFor(storedResponses, RequestOf(storedResponses[k])) = storedResponses[k]

\* the load completes on a file that is absent or cannot be parsed
LoadFindsNothing ==
    /\ loader.pc = "reading"
    /\ loader'.pc = "done"
    /\ disk.t # "file"

\* C22 (load never fails the mocker): a load that finds no file, or a file it
\* cannot parse, completes with an empty map and without an error reaching any
\* call, and a smartFetch made after such a load goes to the live call.
C22_LoadNeverFails ==
    [][/\ LoadFindsNothing
          => /\ storedResponses' = EmptyMap
             /\ calls' = calls
             /\ ev' = [op |-> "loadStoredResponses"]
       /\ \A c \in Calls :
            /\ ev.op = "loadStoredResponses"
            /\ disk.t # "file"
            /\ \E req \in Requests : CallsSmartFetch(c, req)
            => /\ calls'[c].pc = "fetching"
               /\ ev'.phase = "fetching"]_vars

\* a second, mocking instance, made after a write of the first one broke off,
\* has loaded the file it could not parse and has sent its call to the target
C22_Witness ==
    /\ self = "second"
    /\ calls[1].pc = "done"
    /\ disk = Corrupt
    /\ loader.pc = "done"
    /\ isMocking
    /\ storedResponses = EmptyMap
    /\ ev.op = "smartFetch"
    /\ ev.phase = "fetching"
    /\ ev.call = 2

\* the outcome of a record is a success (data, no error) or a failure (an
\* error, no data), never both and never neither
OutcomeWellFormed(outcome) ==
    \/ /\ outcome.success = TRUE
       /\ outcome.error = Null
       /\ outcome.data \notin {Null, Undefined}
    \/ /\ outcome.success = FALSE
       /\ outcome.data = Null
       /\ outcome.error \notin {Null, Undefined}

\* every record of the keyed collection m sits under the key of the request it
\* names and has a well-formed outcome
RecordsConsistent(m) ==
    \A k \in DOMAIN m :
        /\ k = StorageKey(m[k].request.url, m[k].request.method, Prop(m[k].request, "body"))
        /\ OutcomeWellFormed(m[k].response)

SaveLands(c) ==
    /\ calls[c].pc \in {"saving", "savingError", "clearing"}
    /\ calls'[c].pc = "done"
    /\ IF calls[c].pc = "savingError"
       THEN ev'.phase = "rejected" /\ ev'.value = FailureView(calls[c].error)
       ELSE ev'.phase = "resolved"

\* C24 (no backfill on late enable): an instance constructed with
\* storeRealResponses false starts no load, and none is started later, whatever
\* is toggled; every save of such an instance (so the first one after
\* enableRealResponseStorage) leaves in the file exactly the records of the
\* map, and a record the file held before under a key the map does not have is
\* no longer in it.
C24_NoBackfillOnLateEnable ==
    [][/\ (ev'.op = "constructor" /\ ~options'.storeRealResponses) => loader'.pc = "none"
       /\ (loader.pc = "none" /\ ev'.op # "constructor") => loader'.pc = "none"
       /\ \A c \in Calls :
            (loader.pc = "none" /\ SaveLands(c))
            => /\ disk' = saveResponses(storedResponses')
               /\ disk.t = "file"
                  => \A k \in DOMAIN disk.content \ DOMAIN storedResponses' :
                        k \notin DOMAIN disk'.content]_vars

\* the first instance, constructed without real storage over a file left by an
\* earlier run, has had real storage turned on, has never loaded, has stored a
\* record for another request, and its write of the map is under way
C24_Witness ==
    /\ self = "first"
    /\ loader.pc = "none"
    /\ options.storeRealResponses
    /\ disk.t = "file"
    /\ ev.op = "smartFetch"
    /\ ev.phase = "saving"
    /\ DOMAIN storedResponses = {KeyOf(ev.req)}
    /\ DOMAIN disk.content # {}
    /\ KeyOf(ev.req) \notin DOMAIN disk.content
    /\ calls[ev.call].responses = storedResponses

-----------------------------------------------------------------------------
(* hashCode and the key template on their own: the inputs are drawn by the   *)
(* initial state, the actions apply the functions to them.                   *)

MaxLen == 6

\* UTF-16 code units: A, B, a and the largest one
CodeUnits == {65, 66, 97, 65535}

\* the strings of at most MaxLen code units
Strings == UNION {[1..n -> CodeUnits] : n \in 0..MaxLen}

\* an instance with nothing stored, and the arguments of the calls to come
InitHash ==
    \E str \in Strings, method \in {GET, POST} :
      \E body \in {Undefined, EmptyObject, Str(str)} :
        /\ disk = Absent
        /\ self = "first"
        /\ options = ConstructorOptions([f \in FlagNames |-> FALSE], UnsetEnvironment)
        /\ isMocking = ConstructorMocking([f \in FlagNames |-> FALSE], UnsetEnvironment)
        /\ mocks = <<>>
        /\ storedResponses = EmptyMap
        /\ loader = ConstructorLoader(ConstructorOptions([f \in FlagNames |-> FALSE], UnsetEnvironment))
        /\ calls = [c \in Calls |-> NewCall]
        /\ clock = 1
        /\ ev = [op |-> "arguments", str |-> str, method |-> method, body |-> body]

\* hashCode(str)
CallHashCode ==
    /\ ev.op = "arguments"
    /\ ev' = [op |-> "hashCode", str |-> ev.str, value |-> hashCode(ev.str)]
    /\ UNCHANGED <<disk, self, options, isMocking, mocks, storedResponses, loader, calls, clock>>

\* the key getStoredResponse(url, method, requestBody) looks under
ComputeKey ==
    /\ ev.op = "arguments"
    /\ ev' = [op |-> "key", url |-> TheUrl, method |-> ev.method, body |-> ev.body,
              value |-> StorageKey(TheUrl, ev.method, ev.body)]
    /\ UNCHANGED <<disk, self, options, isMocking, mocks, storedResponses, loader, calls, clock>>

NextHash == CallHashCode \/ ComputeKey

SpecHash == InitHash /\ [][NextHash]_vars

\* h <- 31 * h + c on a signed 32-bit h, wrapped to signed 32 bits; the halves
\* keep every intermediate below 2^31
Fold31(h, c) ==
    LET lo == 31 * (h % 65536) + c
        hi == (31 * ((h \div 65536) % 65536) + (lo \div 65536)) % 65536
    IN  IF hi >= 32768 THEN (hi - 65536) * 65536 + (lo % 65536)
        ELSE hi * 65536 + (lo % 65536)

\* the fold over the first n code units of str, starting from 0
RECURSIVE PolynomialHash(_, _)
PolynomialHash(str, n) == IF n = 0 THEN 0 ELSE Fold31(PolynomialHash(str, n - 1), str[n])

-----------------------------------------------------------------------------
(* The reads: getStoredResponse, getStoredResponses and the config getter,   *)
(* called between the steps of smartFetch.                                   *)

\* getStoredResponse(url, method, requestBody) called by the user
CallGetStoredResponse(req) ==
    /\ Running
    /\ ev' = [op |-> "getStoredResponse", req |-> req,
              value |-> getStoredResponse(req.url, MethodOf(req), req.body)]
    /\ UNCHANGED <<disk, self, options, isMocking, mocks, storedResponses, loader, calls, clock>>

\* a listing that hands the records over and forgets them
CallGetStoredResponsesAndDrain ==
    /\ Running
    /\ ev' = [op |-> "getStoredResponses",
              value |-> {storedResponses[k] : k \in DOMAIN storedResponses}]
    /\ storedResponses' = EmptyMap
    /\ UNCHANGED <<disk, self, options, isMocking, mocks, loader, calls, clock>>

\* Array.from(this.state.storedResponses.values()): the records of the map (the
\* order of the array, that of insertion, is not kept here)
CallGetStoredResponses ==
    /\ Running
    /\ ev' = [op |-> "getStoredResponses",
              value |-> {storedResponses[k] : k \in DOMAIN storedResponses}]
    /\ UNCHANGED <<disk, self, options, isMocking, mocks, storedResponses, loader, calls, clock>>

\* mocker.config
CallConfig ==
    /\ Running
    /\ ev' = [op |-> "config", value |-> config]
    /\ UNCHANGED <<disk, self, options, isMocking, mocks, storedResponses, loader, calls, clock>>

NextReads ==
    \/ \E mock \in MockConfigs : addMock(mock)
    \/ LoadCompletes
    \/ \E req \in MockRequests : CallGetStoredResponse(req)
    \/ CallGetStoredResponses
    \/ CallConfig
    \/ \E c \in Calls, req \in MockRequests : smartFetch(c, req)
    \/ \E c \in Calls, outcome \in LiveOutcomes : LiveCallCompletes(c, outcome)
    \/ \E c \in Calls : SaveCompletes(c)

SpecReads == Init /\ [][NextReads]_vars

\* this step is one of the three reads
IsRead == ev'.op \in {"getStoredResponse", "getStoredResponses", "config"}

\* this step is a smartFetch call served from the map
IsCacheHit == ev'.op = "smartFetch" /\ ev'.phase = "resolved" /\ ev'.from = "stored"

\* C26 (cache hits and reads have no side effects): a smartFetch served from
\* the map, a getStoredResponse, a getStoredResponses and a read of config
\* leave the map, the file, the flags and the registry of mocks as they were;
\* and a step of smartFetch changes nothing but the map, by the put of the
\* request's key on the live-call path, and the file, by the write that
\* follows that put.
C26_HitsAndReadsHaveNoSideEffects ==
    [][/\ IsRead => UNCHANGED <<disk, self, options, isMocking, mocks, storedResponses,
                                 loader, calls, clock>>
       /\ IsCacheHit => UNCHANGED <<disk, self, options, isMocking, mocks, storedResponses,
                                     loader, clock>>
       /\ ev'.op = "smartFetch"
          => /\ UNCHANGED <<self, options, isMocking, mocks, loader>>
             /\ storedResponses' # storedResponses
                => /\ calls[ev'.call].pc \in {"fetching", "saving"}
                   /\ storedResponses' =
                        MapSet(storedResponses, KeyOf(ev'.req), storedResponses'[KeyOf(ev'.req)])
             /\ disk' # disk
                => /\ calls[ev'.call].pc \in {"saving", "savingError"}
                   /\ disk' = saveResponses(calls[ev'.call].responses)]_vars

\* a call has just been served from the map of an instance that has a static
\* mock registered and whose records are in the file
C26_Witness ==
    /\ ev.op = "smartFetch"
    /\ ev.phase = "resolved"
    /\ ev.from = "stored"
    /\ Len(mocks) > 0
    /\ disk.t = "file"
    /\ KeyOf(ev.req) \in DOMAIN storedResponses

-----------------------------------------------------------------------------
(* Calls that overlap: the caller starts a call without awaiting the one     *)
(* before.  The instance stores real responses and its load has completed.   *)

InitOverlap ==
    \E opts \in {o \in ExplicitOptions : o.storeRealResponses}, env \in Environments :
        /\ disk = Absent
        /\ self = "first"
        /\ options = ConstructorOptions(opts, env)
        /\ isMocking = ConstructorMocking(opts, env)
        /\ mocks = <<>>
        /\ storedResponses = loadResponses(Absent)
        /\ loader = [pc |-> "done"]
        /\ calls = [c \in Calls |-> NewCall]
        /\ clock = 1
        /\ ev = [op |-> "loadStoredResponses"]

\* smartFetch(req) called while earlier calls may still be pending
smartFetchOverlapping(c, req) ==
    /\ calls[c].pc = "new"
    /\ IF ServeStored(req)
       THEN Resolve(c, req, "stored",
                    StoredView(getStoredResponse(req.url, MethodOf(req), req.body)), 0)
       ELSE /\ calls' = [calls EXCEPT ![c] = [pc |-> "fetching", req |-> req, liveCalls |-> 1]]
            /\ ev' = [op |-> "smartFetch", call |-> c, phase |-> "fetching", req |-> req]
    /\ UNCHANGED <<disk, self, options, isMocking, mocks, storedResponses, loader, clock>>

\* clearStoredResponses() called while earlier calls may still be pending
clearStoredResponsesOverlapping(c) ==
    /\ calls[c].pc = "new"
    /\ storedResponses' = EmptyMap
    /\ IF saveToStorageWrites
       THEN /\ calls' = [calls EXCEPT ![c] = [pc |-> "clearing", responses |-> EmptyMap]]
            /\ ev' = [op |-> "clearStoredResponses", call |-> c, phase |-> "saving"]
       ELSE /\ calls' = [calls EXCEPT ![c] = DoneCall]
            /\ ev' = [op |-> "clearStoredResponses", call |-> c, phase |-> "resolved"]
    /\ UNCHANGED <<disk, self, options, isMocking, mocks, loader, clock>>

\* the writes are independent file operations: they complete in any order, and
\* none of them fails here
NextOverlap ==
    \/ \E c \in Calls, req \in Requests : smartFetchOverlapping(c, req)
    \/ \E c \in Calls : clearStoredResponsesOverlapping(c)
    \/ \E c \in Calls, outcome \in LiveOutcomes : LiveCallCompletes(c, outcome)
    \/ \E c \in Calls : SaveCompletes(c)

SpecOverlap == InitOverlap /\ [][NextOverlap]_vars

\* C23 (the file mirrors the map under concurrency): with storeRealResponses
\* on and no write failing, whenever no smartFetch and no clearStoredResponses
\* is in flight the file holds exactly the records of the map; so when two
\* overlapping live calls for different keys have both stored their record,
\* both records are in the file, in whatever order the two writes completed.
C23_FileMirrorsMap ==
    (options.storeRealResponses /\ \A c \in Calls : ~InFlight(c))
    => loadResponses(disk) = saveResponses(storedResponses).content

-----------------------------------------------------------------------------
(* A live call that has been sent comes back, with a response or an error,   *)
(* and a write that has been started completes or fails: the event loop      *)
(* runs the continuation of every promise that settles.                      *)

LiveCallReturns(c) == \E outcome \in LiveOutcomes : LiveCallCompletes(c, outcome)

SaveReturns(c) == SaveCompletes(c) \/ \E left \in FailedSaveLeaves(disk) : SaveFails(c, left)

SpecFair ==
    /\ Init
    /\ [][Next]_vars
    /\ \A c \in Calls : WF_vars(LiveCallReturns(c)) /\ WF_vars(SaveReturns(c))

\* the step call c takes is one of the transitions of a resolution: from idle
\* to a stored response returned (no live call made) or to the live call; from
\* the live call to the store of the success or of the failure; from the store
\* of the success to the live response returned; from the store of the failure
\* to the failure thrown.  A call that has ended stays ended.
ResolutionStep(c) ==
    LET from == calls[c].pc
        to == calls'[c].pc
        returnsStored == /\ to = "done" /\ ev'.phase = "resolved"
                         /\ ev'.from = "stored" /\ ev'.liveCalls = 0
        returnsLive == /\ to = "done" /\ ev'.phase = "resolved"
                       /\ ev'.from = "live" /\ ev'.liveCalls = 1
        propagatesFailure == to = "done" /\ ev'.phase = "rejected" /\ ev'.liveCalls = 1
    IN  CASE from = "new" -> returnsStored \/ to = "fetching"
          [] from = "fetching" -> \/ to = "saving"
                                  \/ returnsLive
                                  \/ to = "savingError"
                                  \/ propagatesFailure
          [] from = "saving" -> returnsLive
          [] from = "savingError" -> propagatesFailure
          [] OTHER -> FALSE

\* C25 (every resolution terminates in exactly one terminal state): given that
\* the live call and the writes eventually complete or fail, every smartFetch
\* call ends, in a stored response returned, a live response returned or a
\* failure thrown, by the listed transitions only: no live call after a cache
\* hit, and no response returned once the failure path has been entered or
\* failure thrown once the success has been stored.
C25_ResolutionTerminates ==
    /\ [][\A c \in Calls :
            /\ (ev'.op = "smartFetch" /\ ev'.call = c) => ResolutionStep(c)
            /\ calls[c].pc = "done" => calls'[c].pc = "done"]_vars
    /\ \A c \in Calls : Pending(c) ~> (calls[c].pc = "done")

=============================================================================
